---- MODULE Spec2Model ----
(***************************************************************************)
(* A model of LevBot (src/players/lev1_bot.py): a rule-based poker agent.  *)
(*                                                                         *)
(* Units.  Chips handed in by the host (pot, current_bet, big_blind,       *)
(* min_bet, max_bet) are integers.  The agent multiplies them by 0.3 or    *)
(* divides them by 2, so a raise amount is a float with at most one        *)
(* decimal digit.  Raise amounts are therefore kept in TENTHS of a chip    *)
(* (90.0 chips is 900); a comparison of an amount with a chip count c      *)
(* compares it with 10 * c.  (0.3 * n rounds to the exact double whenever  *)
(* 3n/10 is an integer, so no comparison with an integer is changed by     *)
(* floating point.)                                                        *)
(* Probabilities and random draws are in percent: random.random() returns  *)
(* a value of [0, 1), a draw is a value of 0..99.                          *)
(***************************************************************************)
EXTENDS Integers, Sequences, FiniteSets

VARIABLES
    raise_frequency,    \* self.raise_frequency, percent
    play_frequency,     \* self.play_frequency, percent
    players,            \* len(players) the host passes to tournament_start
    started,            \* tournament_start has run
    game_state,         \* the GameState snapshot handed to get_action
    hole_cards,         \* the two private cards, a sequence
    legal_actions,      \* the set of legal PlayerAction values
    min_bet,            \* chips
    max_bet,            \* chips
    amount,             \* the desired raise amount handed to the clamp helper, tenths
    result,             \* what the last get_action call produced
    signals,            \* locals of the last _postflop_strategy call
    degraded            \* what the last clamp-and-apply produced

vars == <<raise_frequency, play_frequency, players, started, game_state,
          hole_cards, legal_actions, min_bet, max_bet, amount, result,
          signals, degraded>>

----------------------------------------------------------------------------
(* PlayerAction, cards *)

PlayerAction == {"FOLD", "CHECK", "CALL", "RAISE", "ALL_IN"}

Suits == {"s", "h", "d", "c"}

ACE == 14

Ranks == 2..ACE

Card(r, s) == [rank |-> r, suit |-> s]

Min(a, b) == IF a < b THEN a ELSE b

Max(a, b) == IF a > b THEN a ELSE b

\* amounts are kept in tenths of a chip
Tenths(chips) == 10 * chips

----------------------------------------------------------------------------
(* The agent's constants, set in __init__ *)

DefaultRaiseFrequency == 20

DefaultPlayFrequency == 60

\* self.raise_amount_multiplier = 0.3, as tenths per chip
RaiseAmountMultiplier == 3

\* game_state.pot / 2, as tenths per chip
HalfPotMultiplier == 5

GoodHandAndGoodPotPlayRate == 50

\* self.premium_hands: (rank, rank) tuples
premium_hands ==
    { <<14, 14>>, <<13, 13>>, <<12, 12>>,
      <<11, 11>>, <<10, 10>>, <<9, 9>>,
      <<14, 13>>, <<14, 12>>, <<14, 11>>,
      <<13, 12>>, <<13, 11>>, <<12, 11>> }

----------------------------------------------------------------------------
(* engine.cards.HandEvaluator: the host engine's hand classification *)

HAND_RANKINGS ==
    [ high_card |-> 1, pair |-> 2, two_pair |-> 3, three_of_a_kind |-> 4,
      straight |-> 5, flush |-> 6, full_house |-> 7, four_of_a_kind |-> 8,
      straight_flush |-> 9, royal_flush |-> 10 ]

\* how many cards of the sequence have rank r
RankCount(cards, r) == Cardinality({i \in DOMAIN cards : cards[i].rank = r})

\* how many cards of the sequence have suit s: suits.count(suit)
SuitCount(cards, s) == Cardinality({i \in DOMAIN cards : cards[i].suit = s})

RankSet(cards) == {cards[i].rank : i \in DOMAIN cards}

\* five consecutive ranks, the ace also counting as 1
HasStraight(rs) ==
    \E lo \in 1..10 :
        \A k \in 0..4 : (IF lo + k = 1 THEN ACE ELSE lo + k) \in rs

SuitedRanks(cards, s) == {cards[i].rank : i \in {j \in DOMAIN cards : cards[j].suit = s}}

\* the category name of the best five-card hand among the cards
evaluate_best_hand(cards) ==
    LET rs      == RankSet(cards)
        ofKind(n) == {r \in rs : RankCount(cards, r) >= n}
        flush   == \E s \in Suits : SuitCount(cards, s) >= 5
        sflush  == \E s \in Suits : HasStraight(SuitedRanks(cards, s))
        royal   == \E s \in Suits : 10..ACE \subseteq SuitedRanks(cards, s)
    IN  IF royal THEN "royal_flush"
        ELSE IF sflush THEN "straight_flush"
        ELSE IF ofKind(4) # {} THEN "four_of_a_kind"
        ELSE IF \E t \in ofKind(3) : ofKind(2) \ {t} # {} THEN "full_house"
        ELSE IF flush THEN "flush"
        ELSE IF HasStraight(rs) THEN "straight"
        ELSE IF ofKind(3) # {} THEN "three_of_a_kind"
        ELSE IF Cardinality(ofKind(2)) >= 2 THEN "two_pair"
        ELSE IF ofKind(2) # {} THEN "pair"
        ELSE "high_card"

----------------------------------------------------------------------------
(* The agent's helpers *)

RECURSIVE SortedSeq(_)
\* sorted(list(S)) for a set of integers
SortedSeq(S) ==
    IF S = {} THEN <<>>
    ELSE LET m == CHOOSE x \in S : \A y \in S : x <= y
         IN  <<m>> \o SortedSeq(S \ {m})

\* the loop both detectors share: for i in range(len(ranks) - 3)
OpenEndedRun(cards) ==
    LET ranks == SortedSeq(RankSet(cards))
    IN  /\ Len(ranks) - 3 >= 1
        /\ \/ \E i \in 1..(Len(ranks) - 3) :
                  ranks[i + 3] - ranks[i] = 3 /\ Len(ranks) >= 4
           \/ {2, 3, 4, 5} \subseteq RankSet(cards)
           \/ {14, 2, 3, 4} \subseteq RankSet(cards)

\* _has_strong_draw
HasStrongDraw(all_cards) ==
    \/ \E suit \in {all_cards[i].suit : i \in DOMAIN all_cards} :
           SuitCount(all_cards, suit) = 4
    \/ OpenEndedRun(all_cards)

\* _is_strong_pot
IsStrongPot(community_cards) ==
    \/ \E suit \in {community_cards[i].suit : i \in DOMAIN community_cards} :
           \/ SuitCount(community_cards, suit) = 3
           \/ SuitCount(community_cards, suit) = 4
    \/ OpenEndedRun(community_cards)

\* a variant that looks the hand up in one order only
IsPremiumStartingHand_OneOrder(hole) ==
    <<hole[1].rank, hole[2].rank>> \in premium_hands

\* _is_premium_starting_hand
IsPremiumStartingHand(hole) ==
    LET hand_tuple1 == <<hole[1].rank, hole[2].rank>>
        hand_tuple2 == <<hole[2].rank, hole[1].rank>>
    IN  hand_tuple1 \in premium_hands \/ hand_tuple2 \in premium_hands

\* _is_pair_starting_hand
IsPairStartingHand(hole) == hole[1].rank = hole[2].rank

\* a variant that forgets the lower bound
ClampRaiseAmount_NoFloor(minb, maxb, amt) == Min(amt, Tenths(maxb))

\* _clamp_raise_amount, amounts in tenths and bets in chips
ClampRaiseAmount(minb, maxb, amt) ==
    LET raise_amount == Min(amt, Tenths(maxb))
    IN  Max(raise_amount, Tenths(minb))

None == [action |-> "None", amount |-> 0]

Act(a, amt) == [action |-> a, amount |-> amt]

\* _apply_raise_amount_if_able, raise_amount in tenths
ApplyRaiseAmountIfAble(gs, legal, raise_amount) ==
    IF raise_amount > Tenths(gs.current_bet) THEN Act("RAISE", raise_amount)
    ELSE IF "CALL" \in legal THEN Act("CALL", 0)
    ELSE IF "CHECK" \in legal THEN Act("CHECK", 0)
    ELSE None

----------------------------------------------------------------------------
(* What a get_action call produces *)

NotCalled == [kind |-> "none", action |-> "None", amount |-> 0]

Return(a, amt) == [kind |-> "return", action |-> a, amount |-> amt]

\* the call ends in an exception
Raise(exc) == [kind |-> "error", action |-> exc, amount |-> 0]

\* a bool compared with a float counts as 0 or 1: here 0 or 100 percent
BoolAsPercent(b) == IF b THEN 100 ELSE 0

\* _preflop_strategy; r1, r2 are the random.random() draws in call order.
\* Line 90 computes pair_starting_hand with _is_premium_starting_hand; the
\* comparison of lines 93-94 has no effect.
PreflopStrategy(gs, hole, legal, minb, maxb, r1, r2) ==
    LET premium_starting_hand == IsPremiumStartingHand(hole)
        pair_starting_hand    == IsPremiumStartingHand(hole)
        raise_amount == ClampRaiseAmount(minb, maxb,
                                         RaiseAmountMultiplier * gs.big_blind)
        applied == ApplyRaiseAmountIfAble(gs, legal, raise_amount)
    IN  IF pair_starting_hand \/ premium_starting_hand
        THEN IF "CALL" \in legal THEN Return("CALL", 0)
             ELSE IF "CHECK" \in legal THEN Return("CHECK", 0)
             ELSE Return("FOLD", 0)
        ELSE IF ~(r1 < play_frequency) THEN Return("FOLD", 0)
        ELSE IF "RAISE" \in legal /\ r2 < raise_frequency /\ applied # None
        THEN Return(applied.action, applied.amount)
        ELSE IF "CALL" \in legal THEN Return("CALL", 0)
        ELSE IF "CHECK" \in legal THEN Return("CHECK", 0)
        ELSE Return("FOLD", 0)

\* the locals _postflop_strategy computes before it decides (lines 142-150)
PostflopSignals(gs, hole) ==
    LET all_cards == hole \o gs.community_cards
        hand_type == evaluate_best_hand(all_cards)
    IN  [ hand_rank   |-> HAND_RANKINGS[hand_type],
          strong_draw |-> HasStrongDraw(all_cards),
          strong_pot  |-> IsStrongPot(all_cards) ]

NoSignals == [hand_rank |-> 0, strong_draw |-> FALSE, strong_pot |-> FALSE]

\* a variant without the weak-hand branch of lines 182-186
PostflopStrategy_NoWeakBranch(gs, sig, legal, minb, maxb, r1, r2, r3, r4) ==
    LET hand_rank       == sig.hand_rank
        good_hand_rank  == hand_rank >= HAND_RANKINGS.pair
        great_hand_rank == hand_rank >= HAND_RANKINGS.three_of_a_kind
        pot_raise  == ClampRaiseAmount(minb, maxb, gs.pot * RaiseAmountMultiplier)
        pot_apply  == ApplyRaiseAmountIfAble(gs, legal, pot_raise)
        half_raise == ClampRaiseAmount(minb, maxb, gs.pot * HalfPotMultiplier)
    IN  IF good_hand_rank /\ sig.strong_pot /\ r1 < GoodHandAndGoodPotPlayRate
        THEN Raise("UnboundLocalError")
        ELSE IF great_hand_rank /\ "RAISE" \in legal
                /\ r2 < BoolAsPercent(great_hand_rank) /\ pot_apply # None
        THEN Return(pot_apply.action, pot_apply.amount)
        ELSE IF good_hand_rank /\ "RAISE" \in legal
                /\ r3 < BoolAsPercent(good_hand_rank) /\ pot_apply # None
        THEN Return(pot_apply.action, pot_apply.amount)
        ELSE IF r4 < raise_frequency /\ half_raise > Tenths(gs.current_bet)
        THEN Return("RAISE", half_raise)
        ELSE IF "CHECK" \in legal THEN Return("CHECK", 0)
        ELSE Return("FOLD", 0)

\* _postflop_strategy from line 152 on; r1..r4 are the random.random() draws
\* at lines 153, 161, 171 and 188
PostflopStrategy(gs, sig, legal, minb, maxb, r1, r2, r3, r4) ==
    LET hand_rank       == sig.hand_rank
        good_hand_rank  == hand_rank >= HAND_RANKINGS.pair
        great_hand_rank == hand_rank >= HAND_RANKINGS.three_of_a_kind
        pot_raise  == ClampRaiseAmount(minb, maxb, gs.pot * RaiseAmountMultiplier)
        pot_apply  == ApplyRaiseAmountIfAble(gs, legal, pot_raise)
        half_raise == ClampRaiseAmount(minb, maxb, gs.pot * HalfPotMultiplier)
    IN  IF good_hand_rank /\ sig.strong_pot /\ r1 < GoodHandAndGoodPotPlayRate
        \* line 154 reads raise_amount before any assignment to it
        THEN Raise("UnboundLocalError")
        ELSE IF great_hand_rank /\ "RAISE" \in legal
                /\ r2 < BoolAsPercent(great_hand_rank) /\ pot_apply # None
        THEN Return(pot_apply.action, pot_apply.amount)
        ELSE IF good_hand_rank /\ "RAISE" \in legal
                /\ r3 < BoolAsPercent(good_hand_rank) /\ pot_apply # None
        THEN Return(pot_apply.action, pot_apply.amount)
        ELSE IF hand_rank < HAND_RANKINGS.pair /\ "CALL" \in legal
        THEN Return("CALL", 0)
        ELSE IF hand_rank < HAND_RANKINGS.pair /\ "CHECK" \in legal
        THEN Return("CHECK", 0)
        ELSE IF r4 < raise_frequency /\ half_raise > Tenths(gs.current_bet)
        THEN Return("RAISE", half_raise)
        ELSE IF "CHECK" \in legal THEN Return("CHECK", 0)
        ELSE Return("FOLD", 0)

----------------------------------------------------------------------------
(* The inputs the host hands in, drawn from bounded sets *)

\* the cards hole cards are dealt from: the first HoleDeckSize of these
HoleDeckOrder ==
    << Card(14, "s"), Card(14, "h"), Card(13, "s"),
       Card(2, "s"), Card(2, "h"), Card(7, "d"), Card(12, "d") >>

HoleDeckSize == 5

\* five-card run-outs; the flop is the first 3 cards, the turn 4, the river 5
BoardOrder ==
    << \* two spades on the flop, no pair
       << Card(9, "s"), Card(5, "s"), Card(11, "d"), Card(3, "c"), Card(12, "h") >>,
       \* five spades
       << Card(9, "s"), Card(5, "s"), Card(11, "s"), Card(3, "s"), Card(12, "s") >>,
       \* three of a kind on the flop
       << Card(8, "c"), Card(8, "d"), Card(8, "h"), Card(4, "c"), Card(6, "d") >>,
       \* a pair on the flop, three suits
       << Card(7, "c"), Card(7, "h"), Card(10, "d"), Card(4, "d"), Card(9, "c") >>,
       \* four consecutive ranks
       << Card(3, "d"), Card(4, "c"), Card(5, "h"), Card(6, "s"), Card(10, "c") >>,
       \* a wheel draw: ace, 2, 3, 4 with the hole cards
       << Card(3, "h"), Card(4, "s"), Card(13, "d"), Card(9, "h"), Card(11, "c") >> >>

NumBoards == 4

MaxPlayers == 9

RoundCards == [preflop |-> 0, flop |-> 3, turn |-> 4, river |-> 5]

RoundNames == {"preflop", "flop", "turn", "river"}

HoleDeckIndex == { k \in 1..HoleDeckSize : k <= Len(HoleDeckOrder) }

\* ordered pairs of distinct cards of the hole deck
HoleHands ==
    { <<HoleDeckOrder[p[1]], HoleDeckOrder[p[2]]>> :
          p \in { q \in HoleDeckIndex \X HoleDeckIndex : q[1] # q[2] } }

\* the pairs in deck order only: after the flop the agent never looks at the
\* order of its hole cards
DealtInOrder ==
    { <<HoleDeckOrder[p[1]], HoleDeckOrder[p[2]]>> :
          p \in { q \in HoleDeckIndex \X HoleDeckIndex : q[1] < q[2] } }

Boards == { BoardOrder[b] : b \in { k \in 1..NumBoards : k <= Len(BoardOrder) } }

\* the random draws, percent: one on each side of every threshold
Draws == {10, 40, 90}

\* (min_bet, max_bet) pairs, chips
BetBounds == { <<50, 1000>>, <<20, 60>>, <<200, 100>> }

CurrentBets == {0, 150}

Pots == {40, 300}

BigBlinds == {20, 400}

\* FOLD is always legal (the terminal fallback the host guarantees)
LegalSets == { l \in SUBSET PlayerAction : "FOLD" \in l }

Disjoint(a, b) == {a[i] : i \in DOMAIN a} \cap {b[i] : i \in DOMAIN b} = {}

\* GameState snapshots: before the flop there are no community cards and the
\* pot is the blinds; the agent reads big_blind only before the flop and pot
\* only after it
GameStates ==
    { [ round_name |-> "preflop", community_cards |-> <<>>, pot |-> 30,
        current_bet |-> cb, big_blind |-> bb ] :
          cb \in CurrentBets, bb \in BigBlinds }
    \cup
    { [ round_name |-> rn, community_cards |-> SubSeq(b, 1, RoundCards[rn]),
        pot |-> pot, current_bet |-> cb, big_blind |-> 20 ] :
          rn \in RoundNames \ {"preflop"}, b \in Boards, pot \in Pots,
          cb \in CurrentBets }

NotApplied == [clamped |-> 0, outcome |-> [action |-> "NotApplied", amount |-> 0]]

\* the agent after __init__
InitAgent ==
    /\ raise_frequency = DefaultRaiseFrequency
    /\ play_frequency = DefaultPlayFrequency
    /\ started = FALSE
    /\ result = NotCalled
    /\ signals = NoSignals
    /\ degraded = NotApplied

\* well-formed inputs: min_bet <= max_bet whenever RAISE is legal
WellFormed(legal, minb, maxb) ==
    /\ legal # {}
    /\ "RAISE" \in legal => minb <= maxb

Init ==
    /\ InitAgent
    /\ players = 6
    /\ amount = 0
    /\ game_state \in GameStates
    /\ hole_cards \in IF game_state.round_name = "preflop" THEN HoleHands
                       ELSE DealtInOrder
    /\ Disjoint(hole_cards, game_state.community_cards)
    /\ legal_actions \in LegalSets
    /\ \E bb \in BetBounds : min_bet = bb[1] /\ max_bet = bb[2]
    /\ WellFormed(legal_actions, min_bet, max_bet)

----------------------------------------------------------------------------
(* The operations *)

\* tournament_start: the tier assignments of lines 314-319 are inside a string
\* literal, so after the base class's bookkeeping (line 312) the method changes
\* none of the agent's fields
TournamentStart ==
    /\ started' = TRUE
    /\ raise_frequency' = raise_frequency
    /\ play_frequency' = play_frequency
    /\ UNCHANGED <<players, game_state, hole_cards, legal_actions, min_bet,
                   max_bet, amount, result, signals, degraded>>

\* get_action: the host calls it once per decision point, after the tournament
\* has started; the inputs of a behaviour are those of one decision point
GetAction ==
    /\ started
    /\ result = NotCalled
    /\ IF game_state.round_name = "preflop"
       THEN /\ signals' = NoSignals
            /\ result' \in
                   { PreflopStrategy(game_state, hole_cards, legal_actions,
                                     min_bet, max_bet, r1, r2) :
                         r1 \in Draws, r2 \in Draws }
       ELSE /\ signals' = PostflopSignals(game_state, hole_cards)
            /\ result' \in
                   { PostflopStrategy(game_state, signals', legal_actions,
                                      min_bet, max_bet, r1, r2, r3, r4) :
                         r1 \in Draws, r2 \in Draws, r3 \in Draws, r4 \in Draws }
    /\ UNCHANGED <<raise_frequency, play_frequency, players, started, game_state,
                   hole_cards, legal_actions, min_bet, max_bet, amount, degraded>>

Next == TournamentStart \/ GetAction

Spec == Init /\ [][Next]_vars

----------------------------------------------------------------------------
(* tournament_start over the table sizes *)

PlayerCounts == 2..MaxPlayers

InitTournament ==
    /\ InitAgent
    /\ players \in PlayerCounts
    /\ amount = 0
    /\ game_state \in { g \in GameStates : g.round_name = "preflop" }
    /\ hole_cards \in DealtInOrder
    /\ legal_actions \in LegalSets
    /\ \E bb \in BetBounds : min_bet = bb[1] /\ max_bet = bb[2]
    /\ WellFormed(legal_actions, min_bet, max_bet)

SpecTournament == InitTournament /\ [][Next]_vars

----------------------------------------------------------------------------
(* The clamp-and-degrade helpers on their own, over every desired amount *)

MaxBet == 3

MaxHalfChips == 9

\* desired amounts, tenths: every half chip up to MaxHalfChips of them
Amounts == { 5 * k : k \in 0..MaxHalfChips }

InitHelpers ==
    /\ InitAgent
    /\ players = 6
    /\ amount \in Amounts
    /\ \E cb \in 0..MaxBet :
           game_state = [ round_name |-> "preflop", community_cards |-> <<>>,
                          pot |-> 0, current_bet |-> cb, big_blind |-> 1 ]
    /\ hole_cards = <<HoleDeckOrder[1], HoleDeckOrder[2]>>
    /\ legal_actions \in LegalSets
    /\ min_bet \in 0..MaxBet
    /\ max_bet \in 0..MaxBet

\* the raise attempt of lines 119-124, 162-166 and 172-176: clamp, then apply
ClampAndDegrade ==
    /\ degraded' =
           [ clamped |-> ClampRaiseAmount(min_bet, max_bet, amount),
             outcome |-> ApplyRaiseAmountIfAble(game_state, legal_actions,
                            ClampRaiseAmount(min_bet, max_bet, amount)) ]
    /\ UNCHANGED <<raise_frequency, play_frequency, players, started, game_state,
                   hole_cards, legal_actions, min_bet, max_bet, amount, result,
                   signals>>

NextHelpers == ClampAndDegrade

SpecHelpers == InitHelpers /\ [][NextHelpers]_vars

----------------------------------------------------------------------------
(* The claims *)

Called == result # NotCalled

Preflop == game_state.round_name = "preflop"

\* CALL if legal, else CHECK if legal, else FOLD
Passive(legal) ==
    IF "CALL" \in legal THEN Return("CALL", 0)
    ELSE IF "CHECK" \in legal THEN Return("CHECK", 0)
    ELSE Return("FOLD", 0)

\* d bounded into [lo, hi], all in tenths, as the specification words it
Clamped(d, lo, hi) == IF d < lo THEN lo ELSE IF d > hi THEN hi ELSE d

\* C1: the action get_action returns is an element of legal_actions; in
\* particular RAISE is never returned when RAISE is not legal.
C1_ReturnedActionIsLegal ==
    result.kind = "return" => result.action \in legal_actions

\* C2: every returned RAISE carries an amount within [min_bet, max_bet] that
\* is strictly greater than current_bet.
C2_RaiseAmountInBounds ==
    (result.kind = "return" /\ result.action = "RAISE") =>
        /\ Tenths(min_bet) <= result.amount
        /\ result.amount <= Tenths(max_bet)
        /\ result.amount > Tenths(game_state.current_bet)

\* C3: a get_action call on well-formed inputs returns an (action, amount)
\* pair; it never ends in an error.
C3_NeverEndsInError ==
    Called => result.kind = "return"

\* C4: before the flop, hole cards whose ranks are in the premium table in
\* either order get CALL if legal, else CHECK if legal, else FOLD, with
\* amount 0, whatever the draws; never RAISE.
C4_PremiumPlaysPassive ==
    ( /\ Called
      /\ Preflop
      /\ \/ <<hole_cards[1].rank, hole_cards[2].rank>> \in premium_hands
         \/ <<hole_cards[2].rank, hole_cards[1].rank>> \in premium_hands )
    => result = Passive(legal_actions)

\* C4 witness: king-ace (the table holds ace-king), RAISE legal, CALL returned
C4_Witness ==
    /\ Called
    /\ Preflop
    /\ hole_cards[1].rank = 13
    /\ hole_cards[2].rank = 14
    /\ "RAISE" \in legal_actions
    /\ result = Return("CALL", 0)

\* C5: before the flop, any two hole cards of equal rank take the passive
\* path: CALL if legal, else CHECK if legal, else FOLD, with amount 0.
C5_PairPlaysPassive ==
    (Called /\ Preflop /\ hole_cards[1].rank = hole_cards[2].rank)
    => result = Passive(legal_actions)

\* the tier values written at lines 315-319
LooseRaiseFrequency == 33

LoosePlayFrequency == 30

TightRaiseFrequency == 40

TightPlayFrequency == 15

\* C6: after tournament_start with at most 4 players the tuning scalars hold
\* the looser tier's values, with at least 8 players the tighter tier's.
C6_TiersSetTuning ==
    started =>
        /\ players <= 4 => /\ raise_frequency = LooseRaiseFrequency
                           /\ play_frequency = LoosePlayFrequency
        /\ players >= 8 => /\ raise_frequency = TightRaiseFrequency
                           /\ play_frequency = TightPlayFrequency

\* C7: after the flop, with a best hand below a pair, get_action returns
\* (CALL, 0) if CALL is legal, otherwise (CHECK, 0) if CHECK is legal,
\* whatever the draws.
C7_WeakHandContinues ==
    (Called /\ ~Preflop /\ signals.hand_rank < HAND_RANKINGS.pair) =>
        /\ "CALL" \in legal_actions => result = Return("CALL", 0)
        /\ ("CALL" \notin legal_actions /\ "CHECK" \in legal_actions)
               => result = Return("CHECK", 0)

\* C7 witness: high card only, FOLD and CALL legal, CALL returned
C7_Witness ==
    /\ Called
    /\ ~Preflop
    /\ signals.hand_rank = HAND_RANKINGS.high_card
    /\ legal_actions = {"FOLD", "CALL"}
    /\ result = Return("CALL", 0)

\* C8: the dangerous-board signal of a postflop call depends on the community
\* cards alone (every other choice of hole cards gives the same value), and it
\* is true when 3 or more community cards share a suit.
C8_DangerFromCommunityAlone ==
    (Called /\ ~Preflop) =>
        /\ \A h \in DealtInOrder :
               Disjoint(h, game_state.community_cards) =>
                   PostflopSignals(game_state, h).strong_pot = signals.strong_pot
        /\ (\E s \in Suits : SuitCount(game_state.community_cards, s) >= 3)
               => signals.strong_pot

\* C9: for min_bet <= max_bet, the clamped amount is min_bet below min_bet,
\* max_bet above max_bet and the desired amount otherwise; above current_bet it
\* gives (RAISE, clamped), otherwise CALL if legal, else CHECK if legal, else
\* None.
C9_ClampAndDegrade ==
    (degraded # NotApplied /\ min_bet <= max_bet) =>
        LET c == Clamped(amount, Tenths(min_bet), Tenths(max_bet))
        IN  /\ degraded.clamped = c
            /\ degraded.outcome =
                   IF c > Tenths(game_state.current_bet) THEN Act("RAISE", c)
                   ELSE IF "CALL" \in legal_actions THEN Act("CALL", 0)
                   ELSE IF "CHECK" \in legal_actions THEN Act("CHECK", 0)
                   ELSE None

\* C9 witness: the desired amount is above max_bet, the clamped amount does
\* not exceed current_bet, CALL is not legal and CHECK is: CHECK comes back
C9_Witness ==
    /\ degraded # NotApplied
    /\ min_bet < max_bet
    /\ amount > Tenths(max_bet)
    /\ degraded.clamped = Tenths(max_bet)
    /\ "CALL" \notin legal_actions
    /\ degraded.outcome = Act("CHECK", 0)

\* C10: after the flop, with three of a kind or better and RAISE legal,
\* get_action returns RAISE with pot x raise_amount_multiplier clamped into
\* [min_bet, max_bet] when that exceeds current_bet, and otherwise degrades to
\* CALL, then CHECK.
C10_GreatHandRaises ==
    ( /\ Called
      /\ ~Preflop
      /\ signals.hand_rank >= HAND_RANKINGS.three_of_a_kind
      /\ "RAISE" \in legal_actions )
    => LET c == Clamped(game_state.pot * RaiseAmountMultiplier,
                        Tenths(min_bet), Tenths(max_bet))
       IN  IF c > Tenths(game_state.current_bet) THEN result = Return("RAISE", c)
           ELSE /\ "CALL" \in legal_actions => result = Return("CALL", 0)
                /\ ("CALL" \notin legal_actions /\ "CHECK" \in legal_actions)
                       => result = Return("CHECK", 0)

====
